---- MODULE Spec2Model ----
(***************************************************************************)
(* Session and request-dispatch layer of the PI API MCP server             *)
(* (src/index.ts).  The module-level variables of index.ts are the state;  *)
(* every tool / resource handler is an async function that runs            *)
(* synchronously up to its network await (one "start" action) and resumes  *)
(* when the response arrives (one "return" action).  Handlers that are     *)
(* suspended on a network call sit in `inflight`; their responses may      *)
(* arrive in any order.  Nothing in index.ts serialises handlers: a        *)
(* request that arrives while another handler awaits its response starts   *)
(* running, and the auth-status resource starts a probe it never awaits    *)
(* (index.ts:931).  Awaits on already-settled promises do not read or      *)
(* write session state between the two sides of the await and are folded   *)
(* into the surrounding step.                                              *)
(***************************************************************************)
EXTENDS Integers, Sequences, FiniteSets, Bags, TLC

VARIABLES
    API_BASE_URL,        \* index.ts:42   string | null
    apiUrlSet,           \* index.ts:54   boolean
    authToken,           \* index.ts:46   string | null
    orgId,               \* index.ts:53   number | null  (<<>> = null, <<n>> = n)
    connectionVerified,  \* index.ts:55   boolean
    pc,                  \* position of the startup code (index.ts:1343-1389)
    inflight,            \* bag of the handlers suspended on an awaited network call
    last                 \* the step just taken: handler, result, request issued

vars == <<API_BASE_URL, apiUrlSet, authToken, orgId, connectionVerified,
          pc, inflight, last>>

session == <<API_BASE_URL, apiUrlSet, authToken, orgId, connectionVerified>>

----------------------------------------------------------------------------
(* Bounds and input domains *)

\* number of handlers that may be suspended on the network at the same time
MaxInflight == 2

null == "null"

LaunchUrls == {null, "", "http://a"}
LaunchTokens == {null, "", "t1"}
UrlInputs == {"http://a", "http://b", "localhost"}
TokenInputs == {null, "t1", "t2"}
OrgInputs == {1, 2}

\* texts are sequences of one-character strings; these are the `filter`
\* arguments of the list tools (<<>>: the argument is absent or empty)
FilterInputs ==
    { <<>>,
      <<"a", "(", "e", "q", ")", "=", "1">>,
      <<"a", "(", "e", "q", ")", "=", "1", "&",
        "b", "(", "l", "i", "k", "e", ")", "=", "x">>,
      <<"g", "a", "r", "b", "a", "g", "e">>,
      <<"1", "a", "(", "e", "q", ")", "=", "1">>,
      <<"a", "(", "e", "q", ")", "=">>,
      <<"a", "(", "e", "1", ")", "=", "1">>,
      <<"g", "a", "r", "b", "a", "g", "e", "&", "a", "(", "e", "q", ")", "=", "1">> }

\* `page` and `pageSize` arguments of the list tools (defaults 1 and 20)
PageInputs == {1, 2}

PageSizeInputs == {20}

\* `method` and `body` arguments of authenticatedRequest; a body object is
\* named by its content
MethodInputs == {"GET", "POST", "PUT", "DELETE"}

BodyInputs == {null, "description"}

\* `queryParams` a caller hands to authenticatedRequest: sets of <<key, value>>
QueryInputs == { {}, {<<"page", "1">>}, {<<"page", "1">>, <<"orgId", "9">>} }

\* `credentials` inputs of authenticate-with-credentials, as character sequences
CredentialInputs ==
    { <<" ">>, <<"u">>, <<" ", "u", " ", " ", "p", " ", "q", " ">> }

\* What the remote side can answer.  status: "ok" a 2xx answer whose body
\* decodes, "status" a non-2xx answer, "transport" fetch rejects, "decode" a
\* 2xx answer whose body does not decode.  token: the `token` field of the
\* decoded body when it is a string, else null.
Response(status, token) == [status |-> status, token |-> token]

Responses == { Response(st, null) : st \in {"ok", "status", "transport"} }

TokenResponses ==
    Responses \cup {Response("decode", null)}
              \cup { Response("ok", t) : t \in {"", "t1"} }

\* content-type header values, cut at the places the code searches for; the
\* header is <<>> when the response has none, <<value>> otherwise
ContentTypes ==
    { <<"application/json">>, <<"application/json", "; charset=utf-8">>,
      <<"text/csv">>, <<"application/pdf">>, <<"image/", "png">>,
      <<"application/vnd.openxmlformats", "-officedocument.wordprocessingml.document">>,
      <<"text/plain">> }

ContentTypeHeaders == {<<>>} \cup { <<ct>> : ct \in ContentTypes }

\* what fetch hands to authenticatedRequest: "ok" a 2xx response whose body
\* can be read as its type demands, "decode" a 2xx response whose body is not
\* JSON although its type says so, "status" a non-2xx response, "transport"
\* fetch rejects
HttpResponse(status, code, statusText, header, body) ==
    [status |-> status, code |-> code, statusText |-> statusText,
     header |-> header, body |-> body]

RequestResponses ==
    { HttpResponse("ok", 200, "OK", h, "payload") : h \in ContentTypeHeaders }
    \cup { HttpResponse("decode", 200, "OK", <<ct>>, "payload") :
               ct \in { <<"application/json">> } }
    \cup { HttpResponse("status", 401, "Unauthorized", <<ct>>, "payload") :
               ct \in { <<"application/json">> } }
    \cup { HttpResponse("status", 500, "Internal Server Error", <<>>, "payload"),
           HttpResponse("transport", 0, "", <<>>, "") }

----------------------------------------------------------------------------
(* JavaScript helpers *)

\* truthiness of a string | null value: `if (x)`, `!x`, `!!x`
Truthy(x) == x # null /\ x # ""

\* `new URL(url)` without a base: throws unless the text is an absolute URL
UrlParses(url) == url \in {"http://a", "http://b"}

\* a request handed to fetch: path below the endpoint, method, Authorization
\* header, the pairs of the query string, Content-Type header and body; every
\* fetch of the source names the content type application/json
Call(path, method, auth, query) ==
    [body |-> null, path |-> path, method |-> method, auth |-> auth,
     query |-> query, contentType |-> "application/json"]

NoAuth == [scheme |-> "none", value |-> null]

NoCall ==
    [body |-> null, path |-> "none", method |-> "none", auth |-> NoAuth,
     query |-> {}, contentType |-> null]

Bearer(tok) == [scheme |-> "bearer", value |-> tok]

Basic(username, password) == [scheme |-> "basic", value |-> <<username, password>>]

RECURSIVE Concat(_)
\* the string made of the characters of a text
Concat(text) == IF text = <<>> THEN "" ELSE Head(text) \o Concat(Tail(text))

\* the characters of the inputs that `[a-zA-Z]` accepts
IsLetter(ch) == ch \in {"a", "b", "e", "g", "i", "k", "l", "q", "r", "x"}

RECURSIVE Split(_, _, _, _)
\* `text.split(sep)`: the pieces between the separators, empty ones included
Split(text, sep, piece, acc) ==
    IF text = <<>> THEN Append(acc, piece)
    ELSE IF Head(text) = sep
         THEN Split(Tail(text), sep, <<>>, Append(acc, piece))
         ELSE Split(Tail(text), sep, Append(piece, Head(text)), acc)

\* `queryParams[key] = value`
Put(queryParams, key, value) ==
    {p \in queryParams : p[1] # key} \cup {<<key, value>>}

\* the session variables a step has changed
Changed ==
    (IF API_BASE_URL' # API_BASE_URL \/ apiUrlSet' # apiUrlSet THEN {"endpoint"} ELSE {})
    \cup (IF authToken' # authToken THEN {"credential"} ELSE {})
    \cup (IF orgId' # orgId THEN {"scope"} ELSE {})
    \cup (IF connectionVerified' # connectionVerified THEN {"verified"} ELSE {})

\* a value authenticatedRequest returns: kind "json" the decoded body, "file"
\* {contentType, data}, "text" the body as text; "none" when it throws
Result(kind, contentType, value) ==
    [contentType |-> contentType, value |-> value, kind |-> kind]

NoResult == Result("none", <<>>, <<>>)

\* the outcome of authenticatedRequest for a response it received: the
\* response, the value returned by index.ts and by build/index.js, and the
\* message of the Error thrown
Outcome(resp, returned, returnedBuild, message) ==
    [resp |-> resp, returned |-> returned, returnedBuild |-> returnedBuild,
     message |-> message]

\* the step did not take a response through authenticatedRequest's decoding
NoOutcome == <<>>

\* op: handler; phase: "call" the handler ran from its start ("resume": from
\* the answer of its network call); done: it has returned in this step;
\* result: what it returned; err: classification of the failure; call: request
\* issued in this step; arg: the handler's input; orig: credential when the
\* handler was called; out: what authenticatedRequest made of the response
Event(op, phase, done, result, err, call, arg, orig) ==
    [op |-> op, phase |-> phase, done |-> done, result |-> result, err |-> err,
     call |-> call, arg |-> arg, orig |-> orig, changed |-> Changed,
     out |-> NoOutcome]

\* a suspended handler: its name, its token argument, its local
\* `originalToken`, and the credential at the time it was called
Cont(op, token, originalToken, pre) ==
    [token |-> token, op |-> op, originalToken |-> originalToken, pre |-> pre]

Suspend(c) == inflight (+) SetToBag({c})

Resume(c) == inflight (-) SetToBag({c})

CanSuspend == BagCardinality(inflight) < MaxInflight

----------------------------------------------------------------------------
(* authenticatedRequest and verifyConnection *)

\* mutant: the credential is checked before the endpoint
AuthenticatedRequestCheck_Swapped(set, tok) ==
    IF ~Truthy(tok) THEN "NotAuthenticated"
    ELSE IF ~set THEN "NotConfigured"
    ELSE "none"

\* mutant: the endpoint is not checked before the request is issued
AuthenticatedRequestCheck_NoEndpoint(set, tok) ==
    IF ~Truthy(tok) THEN "NotAuthenticated" ELSE "none"

\* mutant: an unverified session is refused like a missing credential
AuthenticatedRequestCheck_Verified(set, tok) ==
    IF ~set THEN "NotConfigured"
    ELSE IF ~Truthy(tok) \/ ~connectionVerified THEN "NotAuthenticated"
    ELSE "none"

\* the fail-fast preconditions of authenticatedRequest
AuthenticatedRequestCheck(set, tok) ==
    IF ~set THEN "NotConfigured"
    ELSE IF ~Truthy(tok) THEN "NotAuthenticated"
    ELSE "none"

\* the error a response makes authenticatedRequest throw ("none": it returns)
ResponseError(r) ==
    CASE r.status = "ok" -> "none"
      [] r.status = "status" -> "ApiError"
      [] r.status = "transport" -> "TransportError"
      [] r.status = "decode" -> "DecodeError"

\* the guards of verifyConnection before it probes
VerifyConnectionGuard(set, url, tok) == set /\ Truthy(url) /\ Truthy(tok)

\* mutant: verifyConnection tests the credential only and probes
VerifyConnectionStart_TokenOnly(set, url, tok) ==
    IF ~Truthy(tok) THEN "false" ELSE "probe"

\* verifyConnection up to its await: "false" it returns false at its guards,
\* "caught" authenticatedRequest throws at once and the catch block runs,
\* "probe" the keep-alive request is issued
VerifyConnectionStart(set, url, tok) ==
    IF ~VerifyConnectionGuard(set, url, tok) THEN "false"
    ELSE IF AuthenticatedRequestCheck(set, tok) # "none" THEN "caught"
    ELSE "probe"

\* connectionVerified when verifyConnection returns false without a probe
VerifyConnectionNoProbe(start, cur) == IF start = "caught" THEN FALSE ELSE cur

\* mutant: a failed probe leaves the flag as it was
VerifyConnectionFlag_Sticky(r, cur) == IF ResponseError(r) = "none" THEN TRUE ELSE cur

\* connectionVerified after verifyConnection's probe answered r
VerifyConnectionFlag(r, cur) == ResponseError(r) = "none"

\* mutant: a failed probe of verifyConnection clears the credential
VerifyConnectionToken_ClearedOnFailure(r, cur) ==
    IF ResponseError(r) = "none" THEN cur ELSE null

\* authToken after verifyConnection's probe answered r: it is not written
VerifyConnectionToken(r, cur) == cur

RECURSIVE NumberToString(_)
\* `n.toString()` of a non-negative integer
NumberToString(n) ==
    LET digit == <<"0", "1", "2", "3", "4", "5", "6", "7", "8", "9">>[(n % 10) + 1]
    IN  IF n < 10 THEN digit ELSE NumberToString(n \div 10) \o digit

\* mutant: the scope is added only when the caller named no orgId
InjectOrgId_CallerWins(query, org) ==
    IF org = <<>> \/ (\E p \in query : p[1] = "orgId") THEN query
    ELSE query \cup {<<"orgId", NumberToString(org[1])>>}

\* `queryParams.orgId = orgId.toString()` when a scope is set
InjectOrgId(query, org) ==
    IF org = <<>> THEN query
    ELSE {p \in query : p[1] # "orgId"} \cup {<<"orgId", NumberToString(org[1])>>}

\* `JSON.stringify(body)` of a body object, named by its content
JsonStringify(body) == "{" \o body \o "}"

\* mutant: a body is attached whatever the method
RequestBody_AnyMethod(method, body) ==
    IF body # null THEN JsonStringify(body) ELSE null

\* `options.body`: set for a body given with POST or PUT
RequestBody(method, body) ==
    IF body # null /\ method \in {"POST", "PUT"} THEN JsonStringify(body) ELSE null

\* the request authenticatedRequest hands to fetch
AuthenticatedCall(path, method, body, query, tok) ==
    [Call(path, method, Bearer(tok), InjectOrgId(query, orgId))
        EXCEPT !.body = RequestBody(method, body)]

\* the probe request: authenticatedRequest("/tokens/keepAlive", "POST")
KeepAliveCall(tok) == AuthenticatedCall("/tokens/keepAlive", "POST", null, {}, tok)

----------------------------------------------------------------------------
(* Startup *)

Init ==
    \E url \in LaunchUrls, tok \in LaunchTokens :
        /\ API_BASE_URL = url
        /\ authToken = IF Truthy(tok) THEN tok ELSE null
        /\ orgId = <<>>
        /\ apiUrlSet = Truthy(url)
        /\ connectionVerified = FALSE
        /\ pc = "init"
        /\ inflight = EmptyBag
        /\ last = [op |-> "launch", phase |-> "call", done |-> TRUE, result |-> "ok",
                   err |-> "none", call |-> NoCall, arg |-> <<url, tok>>,
                   orig |-> null, changed |-> {},
                   out |-> NoOutcome]

\* mutant: the launch token survives a failed startup probe
InitializeToken_Kept(verified, cur) == cur

\* authToken after the startup probe: reset when verifyConnection was false
InitializeToken(verified, cur) == IF verified THEN cur ELSE null

\* mutant: the transport is connected only after a verified startup
Connected_WhenVerified(verified) == IF verified THEN "running" ELSE "failed"

\* the server after initializeAndVerifyConnection settled: `server.connect`
\* runs in the then branch and in the catch branch alike
Connected(verified) == "running"

\* initializeAndVerifyConnection up to its await; without both launch values
\* it returns at once and the transport is connected
Initialize ==
    /\ pc = "init"
    /\ IF apiUrlSet /\ Truthy(authToken)
       THEN IF VerifyConnectionStart(apiUrlSet, API_BASE_URL, authToken) = "probe"
            THEN /\ pc' = "probing"
                 /\ UNCHANGED <<session, inflight>>
                 /\ last' = Event("initialize", "call", FALSE, "pending", "none",
                                  KeepAliveCall(authToken), null, authToken)
            ELSE /\ pc' = Connected(FALSE)
                 /\ authToken' = InitializeToken(FALSE, authToken)
                 /\ connectionVerified' = FALSE
                 /\ UNCHANGED <<API_BASE_URL, apiUrlSet, orgId, inflight>>
                 /\ last' = Event("initialize", "call", TRUE, "error", "none",
                                  NoCall, null, authToken)
       ELSE /\ pc' = Connected(connectionVerified)
            /\ UNCHANGED <<session, inflight>>
            /\ last' = Event("initialize", "call", TRUE, "ok", "none",
                             NoCall, null, authToken)

\* the startup probe answers: verifyConnection sets the flag, then a failed
\* probe resets the launch token; the transport is connected afterwards
InitializeReturn(r) ==
    /\ pc = "probing"
    /\ connectionVerified' = VerifyConnectionFlag(r, connectionVerified)
    /\ pc' = Connected(connectionVerified')
    /\ authToken' = InitializeToken(connectionVerified', authToken)
    /\ UNCHANGED <<API_BASE_URL, apiUrlSet, orgId, inflight>>
    /\ last' = Event("initialize", "resume", TRUE, IF connectionVerified' THEN "ok" ELSE "error",
                     ResponseError(r), NoCall, null, authToken)

----------------------------------------------------------------------------
(* Handlers without a network call *)

\* mutant: the endpoint is replaced but a stale verification survives
SetApiUrlVerified_Kept(cur) == cur

\* connectionVerified after set-api-url accepted the URL
SetApiUrlVerified(cur) == FALSE

\* mutant: the URL is stored without being validated
SetApiUrlAccepts_Unchecked(url) == TRUE

\* the validation of set-api-url: `new URL(url)` inside try / catch
SetApiUrlAccepts(url) == UrlParses(url)

\* set-api-url tool
SetApiUrl(url) ==
    /\ pc = "running"
    /\ IF ~SetApiUrlAccepts(url)
       THEN /\ UNCHANGED <<session, inflight, pc>>
            /\ last' = Event("set-api-url", "call", TRUE, "error", "ValidationError",
                             NoCall, url, authToken)
       ELSE /\ API_BASE_URL' = url
            /\ apiUrlSet' = TRUE
            /\ connectionVerified' = SetApiUrlVerified(connectionVerified)
            /\ UNCHANGED <<authToken, orgId, inflight, pc>>
            /\ last' = Event("set-api-url", "call", TRUE, "ok", "none",
                             NoCall, url, authToken)

\* mutant: the assignment targets the handler's own parameter
SetOrganizationScope_Shadowed(id, cur) == cur

\* orgId after set-organization(id)
SetOrganizationScope(id, cur) == <<id>>

\* set-organization tool
SetOrganization(id) ==
    /\ pc = "running"
    /\ orgId' = SetOrganizationScope(id, orgId)
    /\ UNCHANGED <<API_BASE_URL, apiUrlSet, authToken, connectionVerified, inflight, pc>>
    /\ last' = Event("set-organization", "call", TRUE, "ok", "none",
                     NoCall, id, authToken)

----------------------------------------------------------------------------
(* Handlers that probe through verifyConnection *)

\* check-connection tool up to `await verifyConnection()`
CheckConnection ==
    /\ pc = "running"
    /\ IF (~apiUrlSet \/ ~Truthy(API_BASE_URL)) \/ ~Truthy(authToken)
       THEN /\ UNCHANGED <<session, inflight, pc>>
            /\ last' = Event("check-connection", "call", TRUE, "ok",
                             IF ~apiUrlSet \/ ~Truthy(API_BASE_URL)
                             THEN "NotConfigured" ELSE "NotAuthenticated",
                             NoCall, null, authToken)
       ELSE LET start == VerifyConnectionStart(apiUrlSet, API_BASE_URL, authToken) IN
            IF start = "probe"
            THEN /\ CanSuspend
                 /\ inflight' = Suspend(Cont("check-connection", null, null, null))
                 /\ UNCHANGED <<session, pc>>
                 /\ last' = Event("check-connection", "call", FALSE, "pending", "none",
                                  KeepAliveCall(authToken), null, authToken)
            ELSE /\ connectionVerified' = VerifyConnectionNoProbe(start, connectionVerified)
                 /\ UNCHANGED <<API_BASE_URL, apiUrlSet, authToken, orgId, inflight, pc>>
                 /\ last' = Event("check-connection", "call", TRUE, "error", "none",
                                  NoCall, null, authToken)

\* check-connection after the probe answered
CheckConnectionReturn(c, r) ==
    /\ c.op = "check-connection"
    /\ connectionVerified' = VerifyConnectionFlag(r, connectionVerified)
    /\ inflight' = Resume(c)
    /\ authToken' = VerifyConnectionToken(r, authToken)
    /\ UNCHANGED <<API_BASE_URL, apiUrlSet, orgId, pc>>
    /\ last' = Event("check-connection", "resume", TRUE,
                     IF connectionVerified' THEN "ok" ELSE "error",
                     ResponseError(r), NoCall, null, c.pre)

\* authenticate (guide) tool up to `authToken && await verifyConnection()`
Authenticate ==
    /\ pc = "running"
    /\ LET start == IF Truthy(authToken)
                    THEN VerifyConnectionStart(apiUrlSet, API_BASE_URL, authToken)
                    ELSE "false" IN
       IF start = "probe"
       THEN /\ CanSuspend
            /\ inflight' = Suspend(Cont("authenticate", null, null, null))
            /\ UNCHANGED <<session, pc>>
            /\ last' = Event("authenticate", "call", FALSE, "pending", "none",
                             KeepAliveCall(authToken), null, authToken)
       ELSE /\ connectionVerified' = VerifyConnectionNoProbe(start, connectionVerified)
            /\ UNCHANGED <<API_BASE_URL, apiUrlSet, authToken, orgId, inflight, pc>>
            /\ last' = Event("authenticate", "call", TRUE,
                             IF ~apiUrlSet THEN "error" ELSE "ok",
                             IF ~apiUrlSet THEN "NotConfigured" ELSE "none",
                             NoCall, null, authToken)

\* authenticate (guide) after the probe answered
AuthenticateReturn(c, r) ==
    /\ c.op = "authenticate"
    /\ connectionVerified' = VerifyConnectionFlag(r, connectionVerified)
    /\ inflight' = Resume(c)
    /\ authToken' = VerifyConnectionToken(r, authToken)
    /\ UNCHANGED <<API_BASE_URL, apiUrlSet, orgId, pc>>
    /\ last' = Event("authenticate", "resume", TRUE,
                     IF ~connectionVerified' /\ ~apiUrlSet THEN "error" ELSE "ok",
                     ResponseError(r), NoCall, null, c.pre)

\* mutant: readiness is reported without the verified flag
IsReady_Unverified(set, url, tok, verified) ==
    set /\ Truthy(url) /\ tok # null

\* `isReady` of auth-status
IsReady(set, url, tok, verified) ==
    set /\ Truthy(url) /\ tok # null /\ verified

\* the "Ready to use" line of the auth-status text
ReadyLine(ready) == IF ready THEN "ready" ELSE "not ready"

\* mutant: auth-status probes a verified session too
AuthStatusVerifies_Always(set, url, tok, verified) ==
    set /\ Truthy(url) /\ tok # null

\* auth-status calls verifyConnection: endpoint and credential are there and
\* the session is not verified
AuthStatusVerifies(set, url, tok, verified) ==
    set /\ Truthy(url) /\ tok # null /\ ~verified

\* `connectionStatus` when auth-status builds its text
ConnectionStatus(set, url, tok, verified) ==
    IF set /\ Truthy(url) /\ tok # null
    THEN IF verified THEN "Verified" ELSE "Pending verification"
    ELSE "Not configured"

\* the text auth-status returns: its connection status and readiness lines
AuthStatusText(connectionStatus, ready) ==
    "Connection Status: " \o connectionStatus \o "; Ready to use: " \o ReadyLine(ready)

\* auth-status resource: the read returns at once; an unverified session
\* with endpoint and credential starts verifyConnection without awaiting it
AuthStatus ==
    /\ pc = "running"
    /\ LET start == IF AuthStatusVerifies(apiUrlSet, API_BASE_URL, authToken,
                                          connectionVerified)
                    THEN VerifyConnectionStart(apiUrlSet, API_BASE_URL, authToken)
                    ELSE "false"
           text == AuthStatusText(
                       ConnectionStatus(apiUrlSet, API_BASE_URL, authToken,
                                        connectionVerified),
                       IsReady(apiUrlSet, API_BASE_URL, authToken, connectionVerified)) IN
       IF start = "probe"
       THEN /\ CanSuspend
            /\ inflight' = Suspend(Cont("auth-status", null, null, null))
            /\ UNCHANGED <<session, pc>>
            /\ last' = Event("auth-status", "call", TRUE, text, "none",
                             KeepAliveCall(authToken), null, authToken)
       ELSE /\ connectionVerified' = VerifyConnectionNoProbe(start, connectionVerified)
            /\ UNCHANGED <<API_BASE_URL, apiUrlSet, authToken, orgId, inflight, pc>>
            /\ last' = Event("auth-status", "call", TRUE, text, "none",
                             NoCall, null, authToken)

\* the background verifyConnection of auth-status after its probe answered
AuthStatusProbeReturn(c, r) ==
    /\ c.op = "auth-status"
    /\ connectionVerified' = VerifyConnectionFlag(r, connectionVerified)
    /\ inflight' = Resume(c)
    /\ authToken' = VerifyConnectionToken(r, authToken)
    /\ UNCHANGED <<API_BASE_URL, apiUrlSet, orgId, pc>>
    /\ last' = Event("auth-status-probe", "resume", TRUE,
                     IF connectionVerified' THEN "ok" ELSE "error",
                     ResponseError(r), NoCall, null, c.pre)

----------------------------------------------------------------------------
(* keep-session-alive tool *)

\* the credential the probe of keep-session-alive(token) runs with
KeepSessionAliveStaged(token, cur) == IF Truthy(token) THEN token ELSE cur

\* mutant: the failed replacement is not rolled back
KeepSessionAliveRestore_Forgotten(token, originalToken, cur) == cur

\* mutant: a failed probe without a token argument clears the credential
KeepSessionAliveRestore_ClearsWithoutToken(token, originalToken, cur) ==
    IF Truthy(token) THEN originalToken ELSE null

\* authToken after the probe of keep-session-alive(token) failed
KeepSessionAliveRestore(token, originalToken, cur) ==
    IF Truthy(token) THEN originalToken ELSE cur

\* mutant: a successful probe commits the token but does not mark it verified
KeepSessionAliveVerified_Unset(r, cur) == IF ResponseError(r) = "none" THEN cur ELSE FALSE

\* connectionVerified after the probe of keep-session-alive answered r
KeepSessionAliveVerified(r, cur) == ResponseError(r) = "none"

\* keep-session-alive up to `await authenticatedRequest("/tokens/keepAlive")`
KeepSessionAlive(token) ==
    /\ pc = "running"
    /\ IF ~apiUrlSet
       THEN /\ UNCHANGED <<session, inflight, pc>>
            /\ last' = Event("keep-session-alive", "call", TRUE, "error", "NotConfigured",
                             NoCall, token, authToken)
       ELSE LET staged == KeepSessionAliveStaged(token, authToken) IN
            IF ~Truthy(staged)
            THEN /\ authToken' = staged
                 /\ UNCHANGED <<API_BASE_URL, apiUrlSet, orgId, connectionVerified,
                                inflight, pc>>
                 /\ last' = Event("keep-session-alive", "call", TRUE, "error", "NoToken",
                                  NoCall, token, authToken)
            ELSE IF AuthenticatedRequestCheck(apiUrlSet, staged) # "none"
            THEN /\ authToken' = KeepSessionAliveRestore(token, authToken, staged)
                 /\ connectionVerified' = FALSE
                 /\ UNCHANGED <<API_BASE_URL, apiUrlSet, orgId, inflight, pc>>
                 /\ last' = Event("keep-session-alive", "call", TRUE, "error",
                                  AuthenticatedRequestCheck(apiUrlSet, staged),
                                  NoCall, token, authToken)
            ELSE /\ CanSuspend
                 /\ authToken' = staged
                 /\ inflight' = Suspend(Cont("keep-session-alive", token, authToken, authToken))
                 /\ UNCHANGED <<API_BASE_URL, apiUrlSet, orgId, connectionVerified, pc>>
                 /\ last' = Event("keep-session-alive", "call", FALSE, "pending", "none",
                                  KeepAliveCall(staged), token, authToken)

\* keep-session-alive after the probe answered
KeepSessionAliveReturn(c, r) ==
    /\ c.op = "keep-session-alive"
    /\ authToken' = IF ResponseError(r) = "none" THEN authToken
                    ELSE KeepSessionAliveRestore(c.token,
                                                 c.originalToken, authToken)
    /\ connectionVerified' = KeepSessionAliveVerified(r, connectionVerified)
    /\ inflight' = Resume(c)
    /\ UNCHANGED <<API_BASE_URL, apiUrlSet, orgId, pc>>
    /\ last' = Event("keep-session-alive", "resume", TRUE,
                     IF ResponseError(r) = "none" THEN "ok" ELSE "error",
                     ResponseError(r), NoCall, c.token, c.pre)

----------------------------------------------------------------------------
(* authenticate-with-credentials tool *)

RECURSIVE SplitWhitespace(_, _, _)
\* `s.split(/\s+/)` of a trimmed text: the maximal runs of non-blank characters
SplitWhitespace(s, word, acc) ==
    IF s = <<>> THEN (IF word = <<>> THEN acc ELSE Append(acc, word))
    ELSE IF Head(s) = " "
         THEN SplitWhitespace(Tail(s), <<>>, IF word = <<>> THEN acc ELSE Append(acc, word))
         ELSE SplitWhitespace(Tail(s), Append(word, Head(s)), acc)

\* `credentials.trim().split(/\s+/)`: a blank text yields the one part ""
CredentialParts(credentials) ==
    LET parts == SplitWhitespace(credentials, <<>>, <<>>)
    IN  IF parts = <<>> THEN << <<>> >> ELSE parts

\* authenticate-with-credentials up to `await fetch(API_BASE_URL + "/tokens")`
AuthenticateWithCredentials(credentials) ==
    /\ pc = "running"
    /\ LET parts == CredentialParts(credentials) IN
       IF ~apiUrlSet \/ Len(parts) < 2
       THEN /\ UNCHANGED <<session, inflight, pc>>
            /\ last' = Event("authenticate-with-credentials", "call", TRUE, "error",
                             IF ~apiUrlSet THEN "NotConfigured" ELSE "ValidationError",
                             NoCall, credentials, authToken)
       ELSE /\ CanSuspend
            /\ inflight' = Suspend(Cont("authenticate-with-credentials", null, null, null))
            /\ UNCHANGED <<session, pc>>
            /\ last' = Event("authenticate-with-credentials", "call", FALSE, "pending", "none",
                             Call("/tokens", "POST", Basic(parts[1], Tail(parts)), {}),
                             credentials, authToken)

\* the token exchange answered with a 2xx body carrying a string `token`
TokenGranted(r) == r.status = "ok" /\ r.token # null

\* mutant: `data.token` is stored without the test of its type
AuthenticateWithCredentialsToken_Unchecked(r, cur) ==
    IF r.status = "ok" THEN r.token ELSE cur

\* authToken after the exchange answered r
AuthenticateWithCredentialsToken(r, cur) == IF TokenGranted(r) THEN r.token ELSE cur

\* mutant: the granted token is stored but the session is not marked verified
AuthenticateWithCredentialsVerified_NotMarked(r, cur) == cur

\* connectionVerified after the exchange answered r
AuthenticateWithCredentialsVerified(r, cur) == IF TokenGranted(r) THEN TRUE ELSE cur

\* authenticate-with-credentials after the exchange answered
AuthenticateWithCredentialsReturn(c, r) ==
    /\ c.op = "authenticate-with-credentials"
    /\ authToken' = AuthenticateWithCredentialsToken(r, authToken)
    /\ connectionVerified' = AuthenticateWithCredentialsVerified(r, connectionVerified)
    /\ inflight' = Resume(c)
    /\ UNCHANGED <<API_BASE_URL, apiUrlSet, orgId, pc>>
    /\ last' = Event("authenticate-with-credentials", "resume", TRUE,
                     IF TokenGranted(r) THEN "ok" ELSE "error",
                     IF TokenGranted(r) THEN "none"
                     ELSE IF r.status = "ok" THEN "InvalidResponse" ELSE ResponseError(r),
                     NoCall, r.token, authToken)

----------------------------------------------------------------------------
(* logout tool *)

\* mutant: the token survives a failed remote invalidation
LogoutToken_KeptOnFailure(r, cur) == IF ResponseError(r) = "none" THEN null ELSE cur

\* authToken after the invalidate call of logout answered r
LogoutToken(r, cur) == null

\* mutant: logout does not require the endpoint
LogoutGuard_TokenOnly(set, tok) ==
    IF ~Truthy(tok) THEN "NotAuthenticated" ELSE "none"

\* the early returns of logout
LogoutGuard(set, tok) ==
    IF ~set THEN "NotConfigured"
    ELSE IF ~Truthy(tok) THEN "NotAuthenticated"
    ELSE "none"

\* mutant: logging out forgets the organization too
LogoutScope_Cleared(cur) == <<>>

\* orgId after logout: it is not written
LogoutScope(cur) == cur

\* logout up to `await authenticatedRequest("/tokens/invalidate")`
Logout ==
    /\ pc = "running"
    /\ IF LogoutGuard(apiUrlSet, authToken) # "none"
       THEN /\ UNCHANGED <<session, inflight, pc>>
            /\ last' = Event("logout", "call", TRUE, "error", LogoutGuard(apiUrlSet, authToken),
                             NoCall, null, authToken)
       ELSE IF AuthenticatedRequestCheck(apiUrlSet, authToken) # "none"
       THEN /\ authToken' = null
            /\ connectionVerified' = FALSE
            /\ UNCHANGED <<API_BASE_URL, apiUrlSet, orgId, inflight, pc>>
            /\ last' = Event("logout", "call", TRUE, "error",
                             AuthenticatedRequestCheck(apiUrlSet, authToken),
                             NoCall, null, authToken)
       ELSE /\ CanSuspend
            /\ inflight' = Suspend(Cont("logout", null, null, null))
            /\ UNCHANGED <<session, pc>>
            /\ last' = Event("logout", "call", FALSE, "pending", "none",
                             AuthenticatedCall("/tokens/invalidate", "POST", null, {}, authToken),
                             null, authToken)

\* logout after the invalidate call answered
LogoutReturn(c, r) ==
    /\ c.op = "logout"
    /\ authToken' = LogoutToken(r, authToken)
    /\ connectionVerified' = FALSE
    /\ inflight' = Resume(c)
    /\ orgId' = LogoutScope(orgId)
    /\ UNCHANGED <<API_BASE_URL, apiUrlSet, pc>>
    /\ last' = Event("logout", "resume", TRUE,
                     IF ResponseError(r) = "none" THEN "ok" ELSE "error",
                     ResponseError(r), NoCall, null, c.pre)

----------------------------------------------------------------------------
(* Tools and resources that pass through authenticatedRequest *)

\* mutant: a successful request marks the session verified
RequestVerified_Marked(r, cur) == IF ResponseError(r) = "none" THEN TRUE ELSE cur

\* `contentType.includes(part)` on a header value cut into parts
Includes(contentType, part) == \E i \in DOMAIN contentType : contentType[i] = part

\* `response.headers.get("content-type") || ""`
ContentTypeOf(r) == IF r.header = <<>> THEN <<>> ELSE r.header[1]

\* the types index.ts returns as {contentType, data}
IsFileType(contentType) ==
    \/ Includes(contentType, "text/csv")
    \/ Includes(contentType, "application/pdf")
    \/ Includes(contentType, "image/")
    \/ Includes(contentType, "application/vnd.openxmlformats")

\* the types build/index.js returns as {contentType, data}
IsFileTypeBuild(contentType) == Includes(contentType, "text/csv")

\* the classification of a 2xx response, given the test for file types
Classify(r, isFile) ==
    LET contentType == ContentTypeOf(r) IN
    IF Includes(contentType, "application/json")
    THEN Result("json", <<>>, <<"JSON.parse", r.body>>)
    ELSE IF isFile
         THEN Result("file", contentType, <<"base64", r.body>>)
         ELSE Result("text", <<>>, <<"text", r.body>>)

\* what authenticatedRequest of index.ts returns for r
ResponseResult(r) ==
    IF r.status # "ok" THEN NoResult ELSE Classify(r, IsFileType(ContentTypeOf(r)))

\* what authenticatedRequest of build/index.js returns for r
ResponseResultBuild(r) ==
    IF r.status # "ok" THEN NoResult ELSE Classify(r, IsFileTypeBuild(ContentTypeOf(r)))

\* mutant: the Error is built from the body, like the log line before it
ErrorMessage_Body(r) ==
    CASE r.status = "status" ->
            <<"API request failed with status ", r.code, ": ", r.body>>
      [] r.status = "transport" -> <<"fetch failed">>
      [] r.status = "decode" -> <<"Unexpected token">>
      [] OTHER -> <<>>

\* the message of the Error authenticatedRequest throws for r
ErrorMessage(r) ==
    CASE r.status = "status" ->
            <<"API request failed with status ", r.code, ": ", r.statusText>>
      [] r.status = "transport" -> <<"fetch failed">>
      [] r.status = "decode" -> <<"Unexpected token">>
      [] OTHER -> <<>>

\* connectionVerified after authenticatedRequest consumed r: it is not written
RequestVerified(r, cur) == cur

\* a tool or resource that hands its request to authenticatedRequest, up to
\* the `await fetch` there; arg is the tool's input as the event records it
PassThrough(op, arg, path, method, body, query) ==
    /\ pc = "running"
    /\ IF AuthenticatedRequestCheck(apiUrlSet, authToken) # "none"
       THEN /\ UNCHANGED <<session, inflight, pc>>
            /\ last' = Event(op, "call", TRUE, "error",
                             AuthenticatedRequestCheck(apiUrlSet, authToken),
                             NoCall, arg, authToken)
       ELSE /\ CanSuspend
            /\ inflight' = Suspend(Cont("request", null, null, null))
            /\ UNCHANGED <<session, pc>>
            /\ last' = Event(op, "call", FALSE, "pending", "none",
                             AuthenticatedCall(path, method, body, query, authToken),
                             arg, authToken)

\* a read with the query parameters the caller chose
Request(query) == PassThrough("request", query, "/categories", "GET", null, query)

\* mutant: a rejected fetch is tried a second time
RequestRetry_OnTransport(r, tok) ==
    IF r.status = "transport"
    THEN Call("/categories", "GET", Bearer(tok), {})
    ELSE NoCall

\* the request authenticatedRequest issues after its fetch answered r: its
\* catch block logs and rethrows
RequestRetry(r, tok) == NoCall

\* mutant: a rejected request logs the session out
RequestToken_ClearedOnStatus(r, cur) == IF r.status = "status" THEN null ELSE cur

\* authToken after authenticatedRequest consumed r: it is not written
RequestToken(r, cur) == cur

\* the pass-through after authenticatedRequest returned or threw
RequestReturn(c, r) ==
    /\ c.op = "request"
    /\ connectionVerified' = RequestVerified(r, connectionVerified)
    /\ authToken' = RequestToken(r, authToken)
    /\ inflight' = IF RequestRetry(r, authToken) = NoCall THEN Resume(c) ELSE inflight
    /\ UNCHANGED <<API_BASE_URL, apiUrlSet, orgId, pc>>
    /\ last' = [Event("request", "resume", RequestRetry(r, authToken) = NoCall,
                      IF ResponseError(r) = "none" THEN "ok" ELSE "error",
                      ResponseError(r), RequestRetry(r, authToken), null, c.pre)
                EXCEPT !.out = Outcome(r, ResponseResult(r), ResponseResultBuild(r),
                                       ErrorMessage(r))]

----------------------------------------------------------------------------
(* Filters and the list tools *)

\* the first position from i on that holds no letter (Len + 1: there is none)
RunEnd(text, i) ==
    LET stops == {n \in i..Len(text) : ~IsLetter(text[n])}
    IN  IF stops = {} THEN Len(text) + 1
        ELSE CHOOSE n \in stops : \A m \in stops : n <= m

\* /([a-zA-Z]+)\(([a-zA-Z]+)\)=(.+)/ matches with its first character at i
MatchesAt(text, i) ==
    LET j == RunEnd(text, i)
        k == RunEnd(text, j + 1)
    IN  /\ j > i /\ j <= Len(text) /\ text[j] = "("
        /\ k > j + 1 /\ k <= Len(text) /\ text[k] = ")"
        /\ k + 2 <= Len(text) /\ text[k + 1] = "=" /\ text[k + 2] # "\n"

\* `text.match(/([a-zA-Z]+)\(([a-zA-Z]+)\)=(.+)/)`: the pattern is searched
\* from the left and is not anchored; <<>> for null, else <<field, operator,
\* value>> with the value running to the end of the line
FilterMatch(text) ==
    LET starts == {i \in 1..Len(text) : MatchesAt(text, i)} IN
    IF starts = {} THEN <<>>
    ELSE LET i == CHOOSE n \in starts : \A m \in starts : n <= m
             j == RunEnd(text, i)
             k == RunEnd(text, j + 1)
             ends == {n \in (k + 2)..Len(text) : text[n] = "\n"}
             e == IF ends = {} THEN Len(text) + 1
                  ELSE CHOOSE n \in ends : \A m \in ends : n <= m
         IN  << Concat(SubSeq(text, i, j - 1)), Concat(SubSeq(text, j + 1, k - 1)),
                Concat(SubSeq(text, k + 2, e - 1)) >>

\* the key `${field}(${operator})`
FilterKey(match) == match[1] \o "(" \o match[2] \o ")"

RECURSIVE ParseSegments(_, _)
\* the loop of parseFilters over the pieces of the filter text
ParseSegments(filters, queryParams) ==
    IF filters = <<>> THEN queryParams
    ELSE LET match == FilterMatch(Head(filters)) IN
         ParseSegments(Tail(filters),
                       IF match = <<>> THEN queryParams
                       ELSE Put(queryParams, FilterKey(match), match[3]))

\* mutant: the filter text is matched once, as a whole
parseFilters_Unsplit(filterString) ==
    IF filterString = <<>> THEN {}
    ELSE ParseSegments(<<filterString>>, {})

\* parseFilters of build/index.js
parseFilters(filterString) ==
    IF filterString = <<>> THEN {}
    ELSE ParseSegments(Split(filterString, "&", <<>>, <<>>), {})

\* `page` and `pageSize` of a list tool as query parameters
PageQuery(page, pageSize) ==
    {<<"page", NumberToString(page)>>, <<"pageSize", NumberToString(pageSize)>>}

\* queryParams of list-categories and list-charts in index.ts: the filter
\* text is matched once
ListQuery(filter, page, pageSize) ==
    IF filter # <<>> /\ FilterMatch(filter) # <<>>
    THEN Put(PageQuery(page, pageSize), FilterKey(FilterMatch(filter)),
             FilterMatch(filter)[3])
    ELSE PageQuery(page, pageSize)

\* queryParams of list-categories and list-charts in build/index.js:
\* `{ ...queryParams, ...parseFilters(filter) }`
ListQueryBuild(filter, page, pageSize) ==
    IF filter = <<>> THEN PageQuery(page, pageSize)
    ELSE {p \in PageQuery(page, pageSize) :
             \A q \in parseFilters(filter) : q[1] # p[1]}
         \cup parseFilters(filter)

ListTools == {"list-categories", "list-charts"}

ListPath(tool) == IF tool = "list-categories" THEN "/categories" ELSE "/charts"

\* list-categories / list-charts tool, of index.ts or of build/index.js
ListTool(tool, build, filter, page, pageSize) ==
    PassThrough(tool,
                [page |-> page, pageSize |-> pageSize, filter |-> filter,
                 build |-> build],
                ListPath(tool), "GET", null,
                IF build THEN ListQueryBuild(filter, page, pageSize)
                ELSE ListQuery(filter, page, pageSize))

\* a category tool: get, create (POST with a body), update (PUT with a body),
\* delete; the method and body reach authenticatedRequest as given
CategoryRequest(method, body) ==
    PassThrough("category-request", body, "/categories", method, body, {})

----------------------------------------------------------------------------
(* Specification *)

Next ==
    \/ Initialize
    \/ \E r \in Responses : InitializeReturn(r)
    \/ \E url \in UrlInputs : SetApiUrl(url)
    \/ \E id \in OrgInputs : SetOrganization(id)
    \/ CheckConnection
    \/ Authenticate
    \/ AuthStatus
    \/ \E token \in TokenInputs : KeepSessionAlive(token)
    \/ \E credentials \in CredentialInputs : AuthenticateWithCredentials(credentials)
    \/ Logout
    \/ \E query \in QueryInputs : Request(query)
    \/ \E c \in BagToSet(inflight), r \in Responses : CheckConnectionReturn(c, r)
    \/ \E c \in BagToSet(inflight), r \in Responses : AuthenticateReturn(c, r)
    \/ \E c \in BagToSet(inflight), r \in Responses : AuthStatusProbeReturn(c, r)
    \/ \E c \in BagToSet(inflight), r \in Responses : KeepSessionAliveReturn(c, r)
    \/ \E c \in BagToSet(inflight), r \in TokenResponses :
          AuthenticateWithCredentialsReturn(c, r)
    \/ \E c \in BagToSet(inflight), r \in Responses : LogoutReturn(c, r)
    \/ \E c \in BagToSet(inflight), r \in RequestResponses : RequestReturn(c, r)

Spec == Init /\ [][Next]_vars

\* the requests of a configured session: the server was launched with an
\* endpoint and a token, and the startup probe succeeded
RequestInit ==
    /\ API_BASE_URL = "http://a"
    /\ apiUrlSet = TRUE
    /\ authToken = "t1"
    /\ orgId = <<>>
    /\ connectionVerified = TRUE
    /\ pc = "running"
    /\ inflight = EmptyBag
    /\ last = [op |-> "initialize", phase |-> "resume", done |-> TRUE,
               result |-> "ok", err |-> "none", call |-> NoCall, arg |-> null,
               orig |-> "t1", changed |-> {"verified"}, out |-> NoOutcome]

RequestNext ==
    \/ \E id \in OrgInputs : SetOrganization(id)
    \/ \E tool \in ListTools, build \in BOOLEAN, filter \in FilterInputs,
          page \in PageInputs, pageSize \in PageSizeInputs :
          ListTool(tool, build, filter, page, pageSize)
    \/ \E method \in MethodInputs, body \in BodyInputs : CategoryRequest(method, body)
    \/ \E c \in BagToSet(inflight), r \in RequestResponses : RequestReturn(c, r)

RequestSpec == RequestInit /\ [][RequestNext]_vars

\* startup is one chain of promises on the event loop: it runs once the
\* module is loaded, and the fetch of its probe settles (answer or rejection)
LiveSpec ==
    /\ Spec
    /\ WF_vars(Initialize)
    /\ WF_vars(\E r \in Responses : InitializeReturn(r))

----------------------------------------------------------------------------
(* Properties *)

\* the step just taken is handler `op` returning
Returned(op) == last.op = op /\ last.done

\* the step just taken is handler `op` resuming from its network call
Resumed(op) == last.op = op /\ last.phase = "resume"

\* the step just taken is handler `op` being called
Called(op) == last.op = op /\ last.phase = "call"

ProbeFailed == last.err # "none"

\* C1: in every reachable state, connectionVerified implies that the
\* endpoint is set and a credential is present.
C1_VerifiedImpliesConfigured ==
    connectionVerified => (apiUrlSet /\ authToken # null)

\* C2: when keep-session-alive(T) was called with the endpoint set and its
\* probe fails, it ends with the credential it was called with (P, possibly
\* absent) and verified = false; a request issued next carries P, or fails
\* NotAuthenticated without a network call when P is absent or empty.
C2_Rollback ==
    /\ [](Resumed("keep-session-alive") /\ Truthy(last.arg) /\ ProbeFailed
            => authToken = last.orig /\ ~connectionVerified)
    /\ [][(Resumed("keep-session-alive") /\ Truthy(last.arg) /\ ProbeFailed
            /\ last'.op = "request" /\ last'.phase = "call")
           => IF Truthy(last.orig)
              THEN last'.call.auth = Bearer(last.orig)
              ELSE last'.err = "NotAuthenticated" /\ last'.call = NoCall]_vars

C2_Witness ==
    /\ Resumed("keep-session-alive") /\ Truthy(last.arg) /\ ProbeFailed
    /\ Truthy(last.orig) /\ last.orig # last.arg
    /\ "credential" \in last.changed

\* C3: when keep-session-alive(T) was called with the endpoint set and its
\* probe succeeds, it ends with credential = T and verified = true.
C3_CommitOnSuccess ==
    (Resumed("keep-session-alive") /\ Truthy(last.arg) /\ ~ProbeFailed)
        => (authToken = last.arg /\ connectionVerified)

\* C4: logout called with the endpoint set and a credential present ends with
\* the credential absent and verified = false, whether /tokens/invalidate
\* succeeded, answered a non-success status or failed in transport.
C4_LogoutClears ==
    /\ (Called("logout") /\ apiUrlSet /\ Truthy(last.orig))
          => (~last.done /\ last.call.path = "/tokens/invalidate")
    /\ Resumed("logout") => (authToken = null /\ ~connectionVerified)

C4_Witness ==
    /\ Resumed("logout") /\ last.err \in {"ApiError", "TransportError"}
    /\ "credential" \in last.changed

\* C5 as stated: in every state with a credential present, logout ends with
\* the credential absent and verified = false.
C5_LogoutNeedsOnlyCredential ==
    (Returned("logout") /\ (Resumed("logout") \/ Truthy(last.orig)))
        => (authToken = null /\ ~connectionVerified)

\* C5 amended: logout requires the endpoint to be set and a credential to be
\* present.  Called without an endpoint it returns the not-configured error,
\* issues no call and changes nothing, so a launch token stays; called with
\* the endpoint set and no credential it returns an error and changes
\* nothing; otherwise it ends with the credential absent and verified = false.
C5_LogoutPreconditions ==
    /\ Called("logout") =>
          IF ~apiUrlSet
          THEN /\ last.done /\ last.result = "error" /\ last.err = "NotConfigured"
               /\ last.call = NoCall /\ last.changed = {} /\ authToken = last.orig
          ELSE IF ~Truthy(last.orig)
          THEN /\ last.done /\ last.result = "error" /\ last.err = "NotAuthenticated"
               /\ last.call = NoCall /\ last.changed = {}
          ELSE /\ ~last.done /\ last.changed = {}
               /\ last.call.path = "/tokens/invalidate" /\ last.call.method = "POST"
               /\ last.call.auth = Bearer(last.orig)
    /\ Resumed("logout") => (authToken = null /\ ~connectionVerified)

C5_Witness ==
    Returned("logout") /\ ~apiUrlSet /\ Truthy(authToken) /\ last.err = "NotConfigured"

\* C6: set-api-url(u) with a well-formed u ends with endpoint = u and
\* verified = false and leaves credential and scope as they were.
C6_SetApiUrlValid ==
    (last.op = "set-api-url" /\ UrlParses(last.arg))
        => /\ last.result = "ok"
           /\ API_BASE_URL = last.arg /\ apiUrlSet /\ ~connectionVerified
           /\ last.changed \cap {"credential", "scope"} = {}

C6_Witness ==
    /\ last.op = "set-api-url" /\ UrlParses(last.arg)
    /\ last.changed = {"endpoint", "verified"}
    /\ Truthy(authToken) /\ orgId # <<>>

\* C7: set-api-url with a malformed URL returns an error result, issues no
\* network call and leaves endpoint, credential, scope and verified unchanged.
C7_SetApiUrlMalformed ==
    (last.op = "set-api-url" /\ ~UrlParses(last.arg))
        => /\ last.result = "error" /\ last.err = "ValidationError"
           /\ last.call = NoCall
           /\ last.changed = {}

C7_Witness ==
    /\ last.op = "set-api-url" /\ last.arg = "localhost" /\ last.result = "error"
    /\ apiUrlSet /\ connectionVerified

\* C8: authenticatedRequest called with no endpoint fails not-configured
\* (also when the credential is missing too), called with the endpoint set
\* and no credential fails not-authenticated; neither issues a network call.
C8_FailFast ==
    Called("request") =>
        /\ ~apiUrlSet =>
              (last.done /\ last.err = "NotConfigured" /\ last.call = NoCall)
        /\ (apiUrlSet /\ ~Truthy(authToken)) =>
              (last.done /\ last.err = "NotAuthenticated" /\ last.call = NoCall)

C8_Witness ==
    Called("request") /\ ~apiUrlSet /\ authToken = null /\ last.err = "NotConfigured"

\* C9: no step issues a network call, and no call is in flight, while the
\* endpoint is not set.
C9_NoCallWithoutEndpoint ==
    (last.call # NoCall \/ inflight # EmptyBag \/ pc = "probing")
        => (apiUrlSet /\ Truthy(API_BASE_URL))

C9_Witness ==
    /\ last.call # NoCall /\ last.op = "authenticate-with-credentials"
    /\ API_BASE_URL = "http://b"

\* C10: no step of authenticatedRequest (fail-fast return, issue of the call,
\* handling of any response) changes endpoint, credential, scope or verified.
C10_RequestFrame ==
    last.op = "request" => last.changed = {}

C10_Witness ==
    /\ Resumed("request") /\ last.err = "none"
    /\ ~connectionVerified /\ Truthy(authToken)

\* C11: once a scope s is set, every request issued by authenticatedRequest
\* carries exactly one orgId pair, whose value is s, also when the caller
\* supplied an orgId of its own.
C11_ScopeInjected ==
    (last.call # NoCall /\ last.call.auth.scheme = "bearer" /\ orgId # <<>>)
        => /\ orgId = <<1>> => <<"orgId", "1">> \in last.call.query
           /\ orgId = <<2>> => <<"orgId", "2">> \in last.call.query
           /\ Cardinality({p \in last.call.query : p[1] = "orgId"}) = 1

C11_Witness ==
    /\ Called("request") /\ last.call # NoCall /\ orgId = <<2>>
    /\ <<"orgId", "9">> \in last.arg
    /\ <<"orgId", "2">> \in last.call.query /\ <<"page", "1">> \in last.call.query

\* C12: set-organization(id) succeeds in every state of the running server,
\* ends with scope = id, issues no network call and leaves endpoint,
\* credential and verified unchanged.
C12_SetOrganization ==
    last.op = "set-organization"
        => /\ last.done /\ last.result = "ok"
           /\ orgId = <<last.arg>>
           /\ last.call = NoCall
           /\ last.changed \subseteq {"scope"}

C12_Witness ==
    /\ last.op = "set-organization" /\ orgId = <<2>> /\ last.changed = {"scope"}
    /\ ~apiUrlSet /\ authToken = null

\* the handlers that call verifyConnection, and the names under which their
\* steps after the probe are recorded
VerifyCallers == {"initialize", "check-connection", "authenticate", "auth-status"}

VerifyResumers == {"initialize", "check-connection", "authenticate", "auth-status-probe"}

\* C13: verifyConnection called with endpoint and credential present issues
\* one keep-alive probe with the current credential; when the probe answers,
\* verified is true and the outcome is true exactly on a success, false on
\* any failure, and the caller gets a value, never an exception.
C13_VerifyConnection ==
    /\ (/\ last.op \in VerifyCallers /\ last.phase = "call"
        /\ apiUrlSet /\ Truthy(API_BASE_URL) /\ Truthy(authToken)
        /\ last.op = "auth-status" => ~connectionVerified)
           => /\ last.call.path = "/tokens/keepAlive" /\ last.call.method = "POST"
              /\ last.call.auth = Bearer(authToken)
              /\ last.changed = {}
    /\ (last.op \in VerifyResumers /\ last.phase = "resume")
           => /\ connectionVerified = (last.err = "none")
              /\ last.call = NoCall /\ last.done
              /\ last.op # "authenticate"
                    => last.result = (IF last.err = "none" THEN "ok" ELSE "error")
              /\ last.changed \subseteq
                    {"verified"} \cup (IF last.op = "initialize" THEN {"credential"} ELSE {})

C13_Witness ==
    /\ Resumed("check-connection") /\ last.err = "TransportError"
    /\ last.result = "error" /\ last.changed = {"verified"}

\* C14: verifyConnection called while the endpoint is not set or the
\* credential is absent issues no network call and changes nothing; its
\* caller goes on at once with the outcome false.
C14_VerifyConnectionGuards ==
    (/\ last.op \in VerifyCallers /\ last.phase = "call"
     /\ ~apiUrlSet \/ ~Truthy(API_BASE_URL) \/ ~Truthy(authToken))
        => /\ last.call = NoCall /\ last.done
           /\ last.changed = {}
           /\ last.op = "authenticate" /\ ~apiUrlSet => last.result = "error"

C14_Witness ==
    /\ Called("authenticate") /\ ~apiUrlSet /\ Truthy(authToken)
    /\ last.call = NoCall /\ last.done

\* C15: when authenticate-with-credentials fails (endpoint not set, malformed
\* credentials, transport failure, non-success status, undecodable body, or a
\* body without a string token), it returns an error result and none of its
\* steps writes endpoint, credential, scope or verified.
C15_FailedExchangeFrame ==
    /\ Called("authenticate-with-credentials") => last.changed = {}
    /\ (Returned("authenticate-with-credentials") /\ last.err # "none")
           => last.result = "error" /\ last.changed = {} /\ last.call = NoCall
    /\ (Returned("authenticate-with-credentials") /\ last.result = "ok")
           => Resumed("authenticate-with-credentials") /\ last.err = "none"

C15_Witness ==
    /\ Resumed("authenticate-with-credentials") /\ last.err = "InvalidResponse"
    /\ last.result = "error" /\ authToken = "t1" /\ connectionVerified
    /\ orgId # <<>>

\* C16: with the endpoint set, a token exchange answered by a success status
\* and a string token t ends with credential = t and verified = true, whatever
\* the credential was; the exchange request is issued with or without a
\* credential present and carries the basic credentials only.
C16_TokenCommitted ==
    /\ (Called("authenticate-with-credentials") /\ apiUrlSet
           /\ Len(CredentialParts(last.arg)) >= 2)
           => /\ last.call.path = "/tokens" /\ last.call.method = "POST"
              /\ last.call.auth.scheme = "basic"
              /\ last.call.query = {}
    /\ (Resumed("authenticate-with-credentials") /\ last.err = "none")
           => /\ last.arg # null /\ authToken = last.arg
              /\ connectionVerified
              /\ last.result = "ok" /\ last.changed \subseteq {"credential", "verified"}

C16_Witness ==
    /\ Resumed("authenticate-with-credentials") /\ last.err = "none"
    /\ last.orig = "t2" /\ authToken = "t1" /\ connectionVerified
    /\ last.changed = {"credential", "verified"}

\* C17: every transition of verified from false to true is the handling of a
\* successful answer to a /tokens/keepAlive probe; no other step sets it.
C17_VerifiedOnlyByProbe ==
    ("verified" \in last.changed /\ connectionVerified)
        => /\ last.phase = "resume" /\ last.err = "none"
           /\ last.op \in VerifyResumers \cup {"keep-session-alive"}

\* some handler was suspended before the step just taken and still is
OthersSuspended ==
    BagCardinality(inflight) >
        (IF last.phase = "call" /\ last.call # NoCall THEN 1 ELSE 0)

\* C18: while a handler is suspended awaiting its network call, no step of
\* another handler changes endpoint, credential, scope or verified.
C18_NoMutationWhileSuspended ==
    OthersSuspended => last.changed = {}

\* the kind of value the classification rules assign to a content type
ExpectedKind(contentType) ==
    IF Includes(contentType, "application/json") THEN "json"
    ELSE IF \E part \in {"text/csv", "application/pdf", "image/",
                          "application/vnd.openxmlformats"} :
                Includes(contentType, part)
         THEN "file"
         ELSE "text"

\* C19: on a success status the value returned is chosen by the content-type
\* header alone: the decoded JSON for a type containing application/json;
\* otherwise {contentType, data = base64 of the bytes} for a CSV, PDF, image or
\* office-document type; otherwise, also without a header, the body as text.
\* Both the source and the shipped build return that one value.
C19_Classification ==
    (Resumed("request") /\ last.out.resp.status = "ok")
        => LET contentType == IF last.out.resp.header = <<>> THEN <<>>
                              ELSE last.out.resp.header[1]
               expected ==
                   CASE ExpectedKind(contentType) = "json" ->
                            Result("json", <<>>, <<"JSON.parse", last.out.resp.body>>)
                     [] ExpectedKind(contentType) = "file" ->
                            Result("file", contentType, <<"base64", last.out.resp.body>>)
                     [] OTHER -> Result("text", <<>>, <<"text", last.out.resp.body>>)
           IN  /\ last.result = "ok"
               /\ last.out.returned = expected
               /\ last.out.returnedBuild = expected

\* C20: for every non-success status, whatever the content type of the
\* response, authenticatedRequest throws an Error whose message holds the
\* status code and the status text and not the body, and returns no value.
C20_NonSuccessStatus ==
    (Resumed("request") /\ last.out.resp.status = "status")
        => /\ last.result = "error" /\ last.err = "ApiError"
           /\ last.out.message = <<"API request failed with status ",
                                    last.out.resp.code, ": ", last.out.resp.statusText>>
           /\ last.out.message[4] # last.out.resp.body
           /\ last.out.returned = NoResult /\ last.out.returnedBuild = NoResult
           /\ last.changed = {}

C20_Witness ==
    /\ Resumed("request") /\ last.out.resp.status = "status"
    /\ last.out.resp.code = 401 /\ last.out.resp.header = << <<"application/json">> >>
    /\ last.out.resp.body = "payload" /\ last.result = "error"

\* C21: authenticatedRequest issues at most one network call per invocation:
\* none when a precondition fails, one otherwise; the step that handles the
\* answer issues no further call, ends the invocation, and hands a failure to
\* the caller.
C21_NoRetry ==
    /\ Called("request")
           => IF apiUrlSet /\ Truthy(authToken)
              THEN last.call # NoCall /\ ~last.done
              ELSE last.call = NoCall /\ last.done /\ last.result = "error"
    /\ last.phase = "resume"
           => /\ last.call = NoCall /\ last.done
              /\ BagCardinality(inflight) < MaxInflight
    /\ (Resumed("request") /\ last.out.resp.status # "ok")
           => /\ last.result = "error" /\ last.err # "none"
              /\ last.out.returned = NoResult

C21_Witness ==
    /\ Resumed("request") /\ last.out.resp.status = "transport"
    /\ last.err = "TransportError" /\ last.result = "error"
    /\ last.call = NoCall /\ last.done /\ inflight = EmptyBag

\* the session lifecycle operations
LifecycleOps ==
    {"set-api-url", "keep-session-alive", "authenticate-with-credentials",
     "logout", "set-organization"}

\* C22 as stated: endpoint, credential and scope are changed by the session
\* lifecycle operations only.
C22_OnlyLifecycleWrites ==
    last.changed \cap {"endpoint", "credential", "scope"} # {}
        => last.op \in LifecycleOps

\* C22 as amended: endpoint, credential and scope are changed by the session
\* lifecycle operations and, for the credential alone, by startup
\* initialization when it clears a launch token whose probe failed.
C22_LifecycleOrStartupWrites ==
    last.changed \cap {"endpoint", "credential", "scope"} # {}
        => \/ last.op \in LifecycleOps
           \/ /\ Resumed("initialize") /\ last.err # "none"
              /\ last.changed \subseteq {"credential", "verified"}
              /\ authToken = null

C22_Witness ==
    /\ Resumed("initialize") /\ last.err # "none"
    /\ last.changed = {"credential"} /\ authToken = null /\ last.orig = "t1"

\* the connection status lines auth-status can show
ConnectionStatuses == {"Verified", "Pending verification", "Not configured"}

\* the text auth-status just returned says "Ready to use: Yes"
ReportsReady ==
    \E status \in ConnectionStatuses : last.result = AuthStatusText(status, TRUE)

ListCalled == last.op \in ListTools /\ last.phase = "call" /\ last.call # NoCall

\* the query parameters of the request just issued that come from the filter
FilterPairs == {p \in last.call.query : p[1] \notin {"page", "pageSize", "orgId"}}

ChainedFilter ==
    <<"a", "(", "e", "q", ")", "=", "1", "&", "b", "(", "l", "i", "k", "e", ")", "=", "x">>

PrefixedFilter == <<"1", "a", "(", "e", "q", ")", "=", "1">>

\* the mapping the parsing rules assign to the filter texts whose segments
\* either have the form field(operator)=value as a whole or hold no such form
ExpectedFilterPairs(filter) ==
    CASE filter = <<"a", "(", "e", "q", ")", "=", "1">> -> {<<"a(eq)", "1">>}
      [] filter = ChainedFilter -> {<<"a(eq)", "1">>, <<"b(like)", "x">>}
      [] filter = <<"g", "a", "r", "b", "a", "g", "e", "&",
                    "a", "(", "e", "q", ")", "=", "1">> -> {<<"a(eq)", "1">>}
      [] OTHER -> {}

C25_ChainedFilter ==
    (ListCalled /\ last.arg.filter = ChainedFilter)
        => /\ FilterPairs = {<<"a(eq)", "1">>, <<"b(like)", "x">>}
           /\ {p \in last.call.query : p[1] \in {"page", "pageSize"}}
                 = { <<"page", IF last.arg.page = 1 THEN "1" ELSE "2">>,
                     <<"pageSize", "20">> }
           /\ orgId # <<>> => \E p \in last.call.query : p[1] = "orgId"

\* C26: a filter segment yields an entry only if the whole segment has the
\* form <alphabetic field>(<alphabetic operator>)=<value>; a segment with
\* other text in front of the field name, such as '1a(eq)=1', is skipped.
C26_WholeSegment ==
    (ListCalled /\ last.arg.filter = PrefixedFilter) => FilterPairs = {}

\* C27 as stated: a request of authenticatedRequest carries the JSON
\* content-type header and a JSON-encoded body when a body is given with POST
\* or PUT, and neither of them otherwise.
C27_HeaderOnlyWithBody ==
    (last.call # NoCall /\ last.call.auth.scheme = "bearer")
        => LET given == IF last.op = "category-request" THEN last.arg ELSE null IN
           IF given # null /\ last.call.method \in {"POST", "PUT"}
           THEN last.call.contentType = "application/json" /\ last.call.body # null
           ELSE last.call.contentType = null /\ last.call.body = null

\* C27 as amended: the request carries a JSON-encoded body exactly when a body
\* is given with POST or PUT; it carries the JSON content-type header always.
C27_BodyOnlyWithPostOrPut ==
    (last.call # NoCall /\ last.call.auth.scheme = "bearer")
        => LET given == IF last.op = "category-request" THEN last.arg ELSE null IN
           /\ last.call.contentType = "application/json"
           /\ IF given # null /\ last.call.method \in {"POST", "PUT"}
              THEN last.call.body = "{description}"
              ELSE last.call.body = null

C27_Witness ==
    /\ Called("category-request") /\ last.arg = "description"
    /\ last.call.method = "DELETE" /\ last.call.body = null
    /\ last.call.contentType = "application/json"

\* C28: a credential cleared by a completed logout is not brought back by
\* the rollback of a keep-session-alive(T) that had staged T before the
\* logout and whose probe fails after it: the session stays logged out.
C28_NoResurrection ==
    [][(/\ Returned("logout") /\ authToken = null
        /\ last'.op = "keep-session-alive" /\ last'.phase = "resume"
        /\ last'.err # "none" /\ Truthy(last'.arg))
          => authToken' = null]_vars

\* C29: startup with an endpoint and a token sends one keep-alive probe with
\* the launch token and serves nothing until it is answered; then the session
\* holds the launch token with verified = true if the probe succeeded, and no
\* credential with verified = false if it failed; every request sent later
\* carries the credential of the time it is sent.
C29_StartupProbe ==
    /\ (Called("initialize") /\ apiUrlSet /\ Truthy(last.orig))
           => /\ last.call.path = "/tokens/keepAlive"
              /\ last.call.auth = Bearer(last.orig)
              /\ pc = "probing" /\ last.changed = {}
    /\ pc = "probing" => last.op = "initialize" /\ inflight = EmptyBag
    /\ Resumed("initialize")
           => /\ pc = "running" /\ last.call = NoCall
              /\ IF last.err = "none"
                 THEN authToken = last.orig /\ connectionVerified
                 ELSE authToken = null /\ ~connectionVerified
    /\ (last.call # NoCall /\ last.call.auth.scheme = "bearer")
           => last.call.auth.value = authToken /\ Truthy(authToken)

C29_Witness ==
    /\ Resumed("initialize") /\ last.err = "ApiError" /\ pc = "running"
    /\ last.orig = "t1" /\ authToken = null /\ ~connectionVerified

\* C30: no handler runs before startup initialization has finished; the
\* server reaches the running state, whether it started without a probe or
\* its probe succeeded or failed, and once running it stays running.
C30_Connects ==
    /\ [](last.op \notin {"launch", "initialize"} => pc = "running")
    /\ [](pc \in {"init", "probing", "running"})
    /\ [][pc = "running" => pc' = "running"]_vars
    /\ [][pc' = "running" /\ pc # "running" => last'.op = "initialize" /\ last'.done]_vars
    /\ <>(pc = "running")

C30_Witness ==
    /\ pc = "running" /\ Resumed("initialize") /\ last.err = "TransportError"

\* C31: a read of auth-status returns at once; it starts a keep-alive probe
\* exactly when endpoint and credential are present and verified is false,
\* and then reports "Pending verification" with the probe left pending; in
\* every other state it issues no call; the read itself changes no session
\* state, and the answer of the probe is written to verified (true on
\* success, false on failure) and to nothing else.
C31_BackgroundProbe ==
    /\ Called("auth-status")
          => /\ last.done /\ last.changed = {}
             /\ last.call # NoCall
                   <=> (apiUrlSet /\ Truthy(API_BASE_URL) /\ Truthy(authToken)
                          /\ ~connectionVerified)
             /\ last.call # NoCall
                   => /\ last.call.path = "/tokens/keepAlive"
                      /\ last.call.auth = Bearer(authToken)
                      /\ last.result = AuthStatusText("Pending verification", FALSE)
                      /\ BagIn(Cont("auth-status", null, null, null), inflight)
    /\ Resumed("auth-status-probe")
          => /\ connectionVerified <=> last.err = "none"
             /\ last.changed \subseteq {"verified"}
             /\ last.call = NoCall

C31_Witness ==
    /\ Resumed("auth-status-probe") /\ last.err = "none"
    /\ connectionVerified /\ last.changed = {"verified"}

\* C32: authenticatedRequest issues its network call exactly when endpoint
\* and credential are present, whatever the verified flag says; the call
\* goes out with the credential the session holds.
C32_VerifiedNotConsulted ==
    Called("request")
        => /\ last.call # NoCall <=> (apiUrlSet /\ Truthy(authToken))
           /\ last.call # NoCall
                 => /\ last.call.auth = Bearer(authToken)
                    /\ last.err = "none" /\ ~last.done

\* a request issued by an unverified session: the endpoint was changed by
\* set-api-url and the launch credential kept
C32_Witness ==
    /\ Called("request") /\ last.call # NoCall /\ ~connectionVerified
    /\ authToken = "t1" /\ API_BASE_URL = "http://b"

\* the handlers that probe on demand through verifyConnection, and the
\* steps in which their probe is answered
OnDemandProbes == {"check-connection", "authenticate", "auth-status", "auth-status-probe"}

OnDemandResumers == {"check-connection", "authenticate", "auth-status-probe"}

\* C33: no step of check-connection, the authenticate guide or
\* verifyConnection changes endpoint, credential or scope, whatever the
\* probe answers; after a failed on-demand probe verified is false and the
\* credential is the one the session held when the answer arrived.
C33_OnDemandProbeFrame ==
    /\ last.op \in OnDemandProbes => last.changed \subseteq {"verified"}
    /\ (last.op \in OnDemandResumers /\ last.phase = "resume")
          => /\ connectionVerified <=> last.err = "none"
             /\ last.call = NoCall

\* a failed check-connection probe: the launch credential stays, unverified
C33_Witness ==
    /\ Resumed("check-connection") /\ last.err = "ApiError"
    /\ authToken = "t1" /\ ~connectionVerified
    /\ last.changed = {"verified"}

\* C34: keep-session-alive called without a token never changes endpoint,
\* credential or scope; when a credential is present it probes with it, and
\* the answer sets verified (true on success, false on failure); when none
\* is present it returns an error, issues no call and changes nothing.
C34_KeepAliveWithoutToken ==
    (last.op = "keep-session-alive" /\ ~Truthy(last.arg))
        => /\ last.changed \subseteq {"verified"}
           /\ (last.phase = "call" /\ apiUrlSet /\ Truthy(last.orig))
                 => /\ last.call.path = "/tokens/keepAlive"
                    /\ last.call.auth = Bearer(last.orig)
                    /\ authToken = last.orig /\ last.changed = {}
           /\ (last.phase = "call" /\ ~Truthy(last.orig))
                 => /\ last.done /\ last.result = "error"
                    /\ last.call = NoCall /\ last.changed = {}
           /\ last.phase = "resume"
                 => /\ connectionVerified <=> last.err = "none"
                    /\ last.call = NoCall

\* a failed probe of the session's own credential leaves it in place
C34_Witness ==
    /\ Resumed("keep-session-alive") /\ ~Truthy(last.arg) /\ last.err = "ApiError"
    /\ authToken = "t1" /\ last.orig = "t1" /\ ~connectionVerified

\* C35: the scope is written by set-organization alone, which sets it to the
\* id it was given; no other step (logout, set-api-url, a credential
\* replacement, a probe, a request) changes or clears it, so a scope once
\* set stays the most recently set id, and every request authenticatedRequest
\* issues while a scope is set carries it as orgId.
C35_ScopeNeverCleared ==
    /\ "scope" \in last.changed
          => /\ last.op = "set-organization"
             /\ orgId = <<last.arg>>
    /\ last.op = "launch" => orgId = <<>>
    /\ (last.call # NoCall /\ last.call.auth.scheme = "bearer" /\ orgId # <<>>)
          => <<"orgId", NumberToString(orgId[1])>> \in last.call.query

\* the scope set before a logout is still there after it
C35_Witness ==
    /\ Resumed("logout") /\ authToken = null /\ orgId = <<2>>


====
